---------------------------- MODULE Spec2Model ----------------------------
(***************************************************************************)
(* State-machine model of src/script.js: the view-state coordinators of    *)
(* the climbing-gym site (ThemeManager, NavigationManager, ScrollReveal,   *)
(* FormValidator, ModalManager, DashboardNav) and the events and timers    *)
(* the browser delivers to the listeners they register.                    *)
(*                                                                         *)
(* A CSS class on an element is a boolean ("active" on the hamburger, the  *)
(* menu, a dropdown, a modal, a reveal element; "error" on a field).  One  *)
(* action is one event, dispatched to every listener registered for it in  *)
(* the order the browser calls them: listeners on the target in            *)
(* registration order, then the listeners of its ancestors, then those of  *)
(* the document.                                                           *)
(*                                                                         *)
(* The host markup follows the selector conventions of the script: the     *)
(* nav links and the dropdowns are inside .navbar-menu, the hamburger and  *)
(* the modals are outside it, a dropdown's first link is its direct child, *)
(* the dashboard's triggers are outside its panels.  Which of the host     *)
(* elements a page has is part of the state (present).                     *)
(***************************************************************************)
EXTENDS Integers, Sequences, FiniteSets, TLC

(***************************************************************************)
(* Bounds of the model.                                                    *)
(***************************************************************************)
\* toggle() calls followed per page load
MaxToggles == 3

\* scroll positions followed: window.scrollY is 50 * k for k in 0..MaxScroll
MaxScroll == 12

\* characters typed into a field
MaxLen == 6

\* success notifications on the page at the same time
MaxNotifications == 2

(***************************************************************************)
(* The host page.                                                          *)
(***************************************************************************)
\* document.querySelectorAll('.navbar-menu a')
NavLinks == {"homeLink", "classesLink", "boulderingLink", "moreLink"}

\* document.querySelectorAll('.dropdown')
Dropdowns == {"classesDropdown", "moreDropdown"}

\* dropdown.querySelector('a'): the first link of a dropdown
DropdownLink(d) == IF d = "classesDropdown" THEN "classesLink" ELSE "moreLink"

\* link.parentElement.classList.contains('dropdown')
ParentIsDropdown(link) == link \in {"classesLink", "moreLink"}

\* link.getAttribute('href'): hash is a leading '#', rest is what follows it
Href(link) ==
    CASE link = "homeLink"       -> [hash |-> FALSE, rest |-> "index.html"]
      [] link = "classesLink"    -> [hash |-> FALSE, rest |-> "classes.html"]
      [] link = "boulderingLink" -> [hash |-> FALSE, rest |-> "bouldering.html"]
      [] link = "moreLink"       -> [hash |-> TRUE,  rest |-> "more"]

\* window.location.pathname samples, a sequence of names and "/" separators:
\* the site root, the home page, a page a link points to, a page in a
\* directory, a directory, and a page no link points to
Pathnames ==
    { << "/" >>, << "/", "index.html" >>, << "/", "classes.html" >>,
      << "/", "gym", "/", "bouldering.html" >>, << "/", "gym", "/" >>,
      << "/", "about.html" >> }

\* the path the other specifications load the page at
HomePath == << "/" >>

\* document.querySelectorAll('.modal')
Modals == {"bookingModal", "loginModal"}

\* modal.querySelector('.modal-close')
CloseButton(m) == IF m = "bookingModal" THEN "bookingClose" ELSE "loginClose"

\* an element inside a modal that is neither its root nor its close button
ModalContent(m) == IF m = "bookingModal" THEN "bookingContent" ELSE "loginContent"

\* document.querySelectorAll('.theme-toggle'): one in the navbar, one in the menu
ThemeToggles == {"themeToggleDesktop", "themeToggleMobile"}

\* the elements a click can hit
Targets ==
    {"hamburger", "pageBody"} \cup NavLinks \cup ThemeToggles \cup Modals
        \cup {CloseButton(m) : m \in Modals} \cup {ModalContent(m) : m \in Modals}

\* e.target.closest('.navbar-menu')
ClosestNavbarMenu(t) == t \in NavLinks \cup {"themeToggleMobile"}

\* e.target.closest('.hamburger')
ClosestHamburger(t) == t = "hamburger"

\* the ids open(modalId) is called with: the modals' ids and one no element has
ModalIds == Modals \cup {"noSuchModal"}

\* document.getElementById(modalId): the element, or none
GetElementById(id) == IF id \in Modals THEN {id} ELSE {}

\* window.innerWidth samples: at the sidebar breakpoint, and below, at and
\* above the dropdown breakpoint
Widths == {768, 800, 1024, 1200}

\* window.innerWidth <= 1024
DropdownBreakpoint == 1024

\* window.innerWidth <= 768
SidebarBreakpoint == 768

\* the elements of the dashboard layout a click can hit: the two trigger
\* controls, a link inside the sidebar, an option inside the filter panel
DashboardTargets ==
    {"dashboardToggle", "filterToggle", "sidebarLink", "filterOption"}

\* e.target.closest('.dashboard-sidebar')
ClosestSidebar(t) == t = "sidebarLink"

\* e.target.closest('.dashboard-toggle')
ClosestDashboardToggle(t) == t = "dashboardToggle"

\* e.target.closest('.filter-panel')
ClosestFilterPanel(t) == t = "filterOption"

\* e.target.closest('.filter-toggle')
ClosestFilterToggle(t) == t = "filterToggle"

\* window.innerHeight samples
Heights == {600, 800}

\* window.scrollY samples
ScrollPositions == {50 * k : k \in 0..MaxScroll}

\* document.querySelectorAll('.reveal')
RevealElements == {"hero", "classes", "pricing"}

\* the distance of a reveal element's top edge from the top of the document
OffsetTop(e) ==
    CASE e = "hero"    -> 100
      [] e = "classes" -> 650
      [] e = "pricing" -> 1000

\* const elementVisible = 150
elementVisible == 150

\* window.scrollY > 50
ShadowThreshold == 50

\* this.form.querySelectorAll('input, textarea, select')
Fields == {"field1", "field2", "field3"}

\* the fields in document order, the order of inputs.forEach
FieldOrder == << "field1", "field2", "field3" >>

\* the elements of the form that contain fields
Groups == {"group1", "group2", "group3"}

\* a group of its own for every field
OwnGroups ==
    [f \in Fields |->
        CASE f = "field1" -> "group1"
          [] f = "field2" -> "group2"
          [] f = "field3" -> "group3"]

\* the arrangements of the fields in the form: every field in a group of its
\* own, the first two side by side in one group, all three in one element
Arrangements ==
    { OwnGroups,
      [f \in Fields |-> IF f = "field3" THEN "group3" ELSE "group1"],
      [f \in Fields |-> "group1"] }

\* field.type samples: "text" stands for every type no rule names
Types == {"text", "email", "password"}

\* field.name samples: "other" stands for every name but 'phone'
Names == {"phone", "other"}

\* the characters of a value, one of each class the two patterns tell apart:
\* a digit (allowed by both patterns), '@', '.' (both refused by the phone
\* pattern, as a letter is) and white space
Chars == {"1", "@", ".", " "}

\* \s
WhiteSpace == {" "}

\* [\d\s\-\+\(\)]
PhoneChars == {"1", " ", "-", "+", "(", ")"}

\* value.length < 6
MinPasswordLength == 6

\* the values a field is set to in one input event (a paste, an autofill):
\* nothing, white space, an email address, six digits
SampleValues ==
    { << >>, << " " >>, << "1", "@", "1", ".", "1" >>,
      << "1", "1", "1", "1", "1", "1" >> }

\* the success notifications the page has room for
Slots == 1..MaxNotifications

\* the markup of the form as the page ships it
DefaultField(f) ==
    CASE f = "field1" -> [type |-> "email",    name |-> "other", required |-> TRUE]
      [] f = "field2" -> [type |-> "password", name |-> "other", required |-> TRUE]
      [] f = "field3" -> [type |-> "text",     name |-> "phone", required |-> FALSE]

\* the host elements a page may or may not have: .hamburger, .navbar-menu
\* (with the links and dropdowns in it), .navbar, .theme-icon, the form, the
\* modals' .modal-close buttons, .dashboard-sidebar, .dashboard-toggle,
\* .filter-toggle, .filter-panel
Elements ==
    { "hamburger", "navMenu", "navbar", "themeIcon", "form", "closeButtons",
      "sidebar", "dashboardToggle", "filterToggle", "filterPanel" }

\* a page with every host element
AllPresent == [el \in Elements |-> TRUE]

\* localStorage.getItem('theme'): <<>> is null (no entry), <<v>> the entry v.
\* The script is the only writer of the entry and writes 'light' or 'dark'.
StoreContents == {<<>>, <<"light">>, <<"dark">>}

VARIABLES
    localStorageTheme,  \* the 'theme' entry of localStorage
    theme,              \* ThemeManager.theme
    dataTheme,          \* documentElement's data-theme attribute
    themeIcon,          \* .theme-icon textContent: "moon" or "sun"
    toggleCalls,        \* toggle() calls since the page was loaded
    themeAtLoad,        \* ThemeManager.theme right after construction
    storedAtLoad,       \* the 'theme' entry when the page was loaded
    hamburgerActive,    \* .hamburger has class active
    navMenuActive,      \* .navbar-menu has class active
    dropdownActive,     \* per dropdown: has class active
    bodyOverflow,       \* document.body.style.overflow
    modalActive,        \* per modal: has class active
    pathname,           \* window.location.pathname
    markupActive,       \* per nav link: has class active in the page's markup
    linkActive,         \* per nav link: has class active
    sidebarActive,      \* .dashboard-sidebar has class active
    filterPanelActive,  \* .filter-panel has class active
    innerWidth,         \* window.innerWidth
    innerHeight,        \* window.innerHeight
    scrollY,            \* window.scrollY
    navbarShadow,       \* .navbar style.boxShadow: "md" or "sm"
    revealActive,       \* per reveal element: has class active
    fieldAttrs,         \* per field: its type, name and required attribute
    fieldValue,         \* per field: field.value, a sequence of characters
    fieldError,         \* per field: has class error
    formError,          \* per group: <<text>> of its .form-error, <<>> if none
    present,            \* per host element: the page has it
    fieldParent,        \* per field: field.parentElement
    notifications,      \* per slot: "none", or the stage of the success
                        \* notification in it, "shown" or "fading"
    lastEvent           \* the event dispatched last, what its listeners did
                        \* (and validateField returned), and the overlays
                        \* that were open when it arrived

vars ==
    << localStorageTheme, theme, dataTheme, themeIcon, toggleCalls, themeAtLoad,
       storedAtLoad, hamburgerActive, navMenuActive, dropdownActive,
       bodyOverflow, modalActive, pathname, markupActive, linkActive,
       sidebarActive, filterPanelActive, innerWidth, innerHeight, scrollY,
       navbarShadow, revealActive, fieldAttrs, fieldValue, fieldError,
       formError, fieldParent, notifications, present, lastEvent >>

\* the state of the form
formVars ==
    << fieldAttrs, fieldValue, fieldError, formError, fieldParent,
       notifications >>

\* what the listeners of a field leave alone
markupVars == << fieldAttrs, fieldParent, notifications >>

\* field.parentElement: the element a field's .form-error is looked up in
Parent(f) == fieldParent[f]

\* what the click, keydown and open() listeners leave alone
scrollVars == << innerHeight, scrollY, navbarShadow, revealActive >>

\* the page's address and the highlighting of its nav links
highlightVars == << pathname, markupActive, linkActive >>

\* what the scroll listeners leave alone
overlayVars ==
    << localStorageTheme, theme, dataTheme, themeIcon, toggleCalls, themeAtLoad,
       storedAtLoad, hamburgerActive, navMenuActive, dropdownActive,
       bodyOverflow, modalActive, sidebarActive, filterPanelActive,
       highlightVars, present >>

\* the record kept of an event
Event(type, target, prevented, outside) ==
    [ type |-> type, target |-> target, defaultPrevented |-> prevented,
      outsideClose |-> outside, menuBefore |-> navMenuActive,
      modalsBefore |-> {m \in Modals : modalActive[m]}, returned |-> "none",
      validated |-> {}, passed |-> {}, submitted |-> FALSE, threw |-> FALSE ]

(***************************************************************************)
(* The page as a record, so that the listeners of one event compose.       *)
(***************************************************************************)
Page ==
    [ stored    |-> localStorageTheme,
      theme     |-> theme,
      dataTheme |-> dataTheme,
      icon      |-> themeIcon,
      toggles   |-> toggleCalls,
      hamburger |-> hamburgerActive,
      menu      |-> navMenuActive,
      dropdown  |-> dropdownActive,
      overflow  |-> bodyOverflow,
      modal     |-> modalActive,
      sidebar   |-> sidebarActive,
      filterPanel |-> filterPanelActive,
      defaultPrevented |-> FALSE,
      outsideClose     |-> FALSE,
      threw            |-> FALSE ]

Commit(p, type, target) ==
    /\ localStorageTheme' = p.stored
    /\ theme' = p.theme
    /\ dataTheme' = p.dataTheme
    /\ themeIcon' = p.icon
    /\ toggleCalls' = p.toggles
    /\ hamburgerActive' = p.hamburger
    /\ navMenuActive' = p.menu
    /\ dropdownActive' = p.dropdown
    /\ bodyOverflow' = p.overflow
    /\ modalActive' = p.modal
    /\ sidebarActive' = p.sidebar
    /\ filterPanelActive' = p.filterPanel
    /\ lastEvent' = [Event(type, target, p.defaultPrevented, p.outsideClose)
                         EXCEPT !.threw = p.threw]

(***************************************************************************)
(* ThemeManager                                                            *)
(***************************************************************************)
\* localStorage.getItem('theme') || 'light'
StoredOrLight(entry) == IF entry = <<>> \/ entry[1] = "" THEN "light" ELSE entry[1]

\* this.theme === 'light' ? moon : sun
IconFor(t) == IF t = "light" THEN "moon" ELSE "sun"

\* ThemeManager.updateThemeIcon: the icon's text after the call
updateThemeIcon(icon, t) == IF present["themeIcon"] THEN IconFor(t) ELSE icon

\* this.theme === 'light' ? 'dark' : 'light'
Flip(t) == IF t = "light" THEN "dark" ELSE "light"

\* toggle with both arms of the conditional 'dark'
toggleAlwaysDark(p) ==
    [p EXCEPT !.theme = "dark", !.dataTheme = "dark", !.stored = <<"dark">>,
              !.icon = updateThemeIcon(@, "dark"), !.toggles = @ + 1]

\* toggle without the localStorage.setItem call
toggleWithoutSave(p) ==
    LET t == Flip(p.theme)
    IN  [p EXCEPT !.theme = t, !.dataTheme = t,
                  !.icon = updateThemeIcon(@, t), !.toggles = @ + 1]

\* ThemeManager.toggle
toggle(p) ==
    LET t == Flip(p.theme)
    IN  [p EXCEPT !.theme = t, !.dataTheme = t, !.stored = <<t>>,
                  !.icon = updateThemeIcon(@, t), !.toggles = @ + 1]

(***************************************************************************)
(* NavigationManager                                                       *)
(***************************************************************************)
\* toggleMenu toggling the menu's class only
toggleMenuNotHamburger(p) ==
    LET m == ~p.menu
    IN  [p EXCEPT !.menu = m, !.overflow = IF m THEN "hidden" ELSE ""]

\* NavigationManager.toggleMenu: the hamburger's class is toggled first; on a
\* page without .navbar-menu this.navMenu is null and this.navMenu.classList
\* raises a TypeError, which ends the listener
toggleMenu(p) ==
    IF present["navMenu"]
    THEN LET m == ~p.menu
         IN  [p EXCEPT !.hamburger = ~p.hamburger, !.menu = m,
                       !.overflow = IF m THEN "hidden" ELSE ""]
    ELSE [p EXCEPT !.hamburger = ~p.hamburger, !.threw = TRUE]

\* closeMenu without the reset of the body's overflow
closeMenuKeepsLock(p) ==
    [p EXCEPT !.hamburger = FALSE, !.menu = FALSE,
              !.dropdown = [d \in Dropdowns |-> FALSE]]

\* NavigationManager.closeMenu
closeMenu(p) ==
    [p EXCEPT !.hamburger = FALSE, !.menu = FALSE, !.overflow = "",
              !.dropdown = [d \in Dropdowns |-> FALSE]]

RECURSIVE split(_)
\* currentPath.split('/'): the names between the separators, '' where two
\* separators or a separator and an end of the path meet
split(path) ==
    IF path = << >> THEN << "" >>
    ELSE IF Head(path) = "/" THEN << "" >> \o split(Tail(path))
    ELSE << Head(path) >> \o Tail(split(Tail(path)))

\* currentPath.split('/').pop() || 'index.html'
CurrentPage(path) ==
    LET segments == split(path)
        last == segments[Len(segments)]
    IN  IF last = "" THEN "index.html" ELSE last

\* linkPath === page, for the href of a link and a name without '#'
HrefIs(link, page) == ~Href(link).hash /\ Href(link).rest = page

\* highlightActivePage without the else branch
highlightAddsOnly(active, path) ==
    LET currentPage == CurrentPage(path)
    IN  [link \in NavLinks |->
            IF \/ HrefIs(link, currentPage)
               \/ currentPage = "" /\ HrefIs(link, "index.html")
               \/ currentPage = "index.html" /\ HrefIs(link, "index.html")
            THEN TRUE
            ELSE active[link]]

\* NavigationManager.highlightActivePage: the links' active class after it
highlightActivePage(active, path) ==
    LET currentPage == CurrentPage(path)
    IN  [link \in NavLinks |->
            IF \/ HrefIs(link, currentPage)
               \/ currentPage = "" /\ HrefIs(link, "index.html")
               \/ currentPage = "index.html" /\ HrefIs(link, "index.html")
            THEN TRUE
            ELSE FALSE]

\* the nav link listener without the dropdown-parent test
navLinkClickAlwaysCloses(p, link) == closeMenu(p)

\* the click listener of every nav link
navLinkClick(p, link) ==
    IF ~ParentIsDropdown(link) THEN closeMenu(p) ELSE p

\* the dropdown link listener without the width test
dropdownLinkClickAnyWidth(p, d) ==
    [p EXCEPT !.defaultPrevented = TRUE, !.dropdown[d] = ~@]

\* the click listener of a dropdown's first link
dropdownLinkClick(p, d) ==
    IF innerWidth <= DropdownBreakpoint
    THEN [p EXCEPT !.defaultPrevented = TRUE, !.dropdown[d] = ~@]
    ELSE p

\* the document listener without the .hamburger test
documentClickMenuOnly(p, t) ==
    IF ~ClosestNavbarMenu(t)
    THEN [closeMenu(p) EXCEPT !.outsideClose = TRUE]
    ELSE p

\* the document's click listener of NavigationManager
documentClick(p, t) ==
    IF ~ClosestNavbarMenu(t) /\ ~ClosestHamburger(t)
    THEN [closeMenu(p) EXCEPT !.outsideClose = TRUE]
    ELSE p

(***************************************************************************)
(* initSmoothScroll: the click listener of every a[href^="#"]              *)
(***************************************************************************)
smoothScrollClick(p, link) ==
    IF Href(link).rest = "" THEN p ELSE [p EXCEPT !.defaultPrevented = TRUE]

(***************************************************************************)
(* ModalManager                                                            *)
(***************************************************************************)
\* ModalManager.open
open(p, modalId) ==
    IF GetElementById(modalId) # {}
    THEN [p EXCEPT !.modal[modalId] = TRUE, !.overflow = "hidden"]
    ELSE p

\* ModalManager.close
close(p, m) == [p EXCEPT !.modal[m] = FALSE, !.overflow = ""]

\* closeAll stopping after the first open modal
closeFirstOpen(p) ==
    IF \E m \in Modals : p.modal[m]
    THEN close(p, CHOOSE m \in Modals : p.modal[m])
    ELSE p

\* ModalManager.closeAll: close(modal) for every tracked modal
closeAll(p) ==
    IF Modals = {}
    THEN p
    ELSE [p EXCEPT !.modal = [m \in Modals |-> FALSE], !.overflow = ""]

\* the listener of a modal's root without the e.target === modal test
modalClickAnyTarget(p, m, t) == close(p, m)

\* the click listener of a modal's root
modalClick(p, m, t) == IF t = m THEN close(p, m) ELSE p

\* the document's keydown listener
keydown(p, key) == IF key = "Escape" THEN closeAll(p) ELSE p

(***************************************************************************)
(* DashboardNav                                                            *)
(***************************************************************************)
\* the click listener of .dashboard-toggle
sidebarToggleClick(p) == [p EXCEPT !.sidebar = ~@]

\* the click listener of .filter-toggle
filterToggleClick(p) == [p EXCEPT !.filterPanel = ~@]

\* the document listener of DashboardNav without the width test
dashboardDocumentClickAnyWidth(p, t) ==
    LET p1 == IF ~ClosestSidebar(t) /\ ~ClosestDashboardToggle(t)
              THEN [p EXCEPT !.sidebar = FALSE] ELSE p
    IN  IF ~ClosestFilterPanel(t) /\ ~ClosestFilterToggle(t)
        THEN [p1 EXCEPT !.filterPanel = FALSE] ELSE p1

\* the document's click listener of DashboardNav
dashboardDocumentClick(p, t) ==
    IF innerWidth <= SidebarBreakpoint
    THEN LET p1 == IF ~ClosestSidebar(t) /\ ~ClosestDashboardToggle(t)
                   THEN [p EXCEPT !.sidebar = FALSE] ELSE p
         IN  IF ~ClosestFilterPanel(t) /\ ~ClosestFilterToggle(t)
             THEN [p1 EXCEPT !.filterPanel = FALSE] ELSE p1
    ELSE p

(***************************************************************************)
(* One click: the listeners on the target, then on its ancestors, then on  *)
(* the document.                                                           *)
(***************************************************************************)
\* the modal an element belongs to, if any
ModalOf(t) == {m \in Modals : t \in {m, CloseButton(m), ModalContent(m)}}

OnTarget(p, t) ==
    LET p1 == IF t \in NavLinks THEN navLinkClick(p, t) ELSE p
        p2 == IF \E d \in Dropdowns : DropdownLink(d) = t
              THEN dropdownLinkClick(p1, CHOOSE d \in Dropdowns : DropdownLink(d) = t)
              ELSE p1
        p3 == IF t \in NavLinks /\ Href(t).hash THEN smoothScrollClick(p2, t) ELSE p2
        p4 == IF t = "hamburger" THEN toggleMenu(p3) ELSE p3
        p5 == IF t \in ThemeToggles THEN toggle(p4) ELSE p4
        p6 == IF \E m \in Modals : CloseButton(m) = t
              THEN close(p5, CHOOSE m \in Modals : CloseButton(m) = t)
              ELSE p5
        p7 == IF t = "dashboardToggle" /\ present["sidebar"]
              THEN sidebarToggleClick(p6) ELSE p6
        p8 == IF t = "filterToggle" /\ present["sidebar"] /\ present["filterPanel"]
              THEN filterToggleClick(p7) ELSE p7
    IN  p8

OnAncestors(p, t) ==
    IF ModalOf(t) # {}
    THEN modalClick(p, CHOOSE m \in ModalOf(t) : TRUE, t)
    ELSE p

\* the document's listeners in the order the coordinators are constructed
OnDocument(p, t) ==
    IF present["sidebar"]
    THEN dashboardDocumentClick(documentClick(p, t), t)
    ELSE documentClick(p, t)

\* element t is on the page
Exists(t) ==
    CASE t = "hamburger" -> present["hamburger"]
      [] t \in NavLinks \cup {"themeToggleMobile"} -> present["navMenu"]
      [] t \in {CloseButton(m) : m \in Modals} -> present["closeButtons"]
      [] t = "dashboardToggle" -> present["dashboardToggle"]
      [] t = "filterToggle" -> present["filterToggle"]
      [] t = "sidebarLink" -> present["sidebar"]
      [] t = "filterOption" -> present["filterPanel"]
      [] OTHER -> TRUE

DispatchClick(p, t) == OnDocument(OnAncestors(OnTarget(p, t), t), t)

(***************************************************************************)
(* ScrollReveal and the navbar shadow                                      *)
(***************************************************************************)
\* element.getBoundingClientRect().top
BoundingTop(e, y) == OffsetTop(e) - y

\* reveal removing the class from the elements outside the reveal zone
revealTracksViewport(active, y, h) ==
    [e \in RevealElements |-> BoundingTop(e, y) < h - elementVisible]

\* ScrollReveal.reveal: the elements' active class after the call
reveal(active, y, h) ==
    [e \in RevealElements |->
        IF BoundingTop(e, y) < h - elementVisible THEN TRUE ELSE active[e]]

\* NavigationManager.handleScroll: the navbar's boxShadow after the call
handleScroll(y) == IF y > ShadowThreshold THEN "md" ELSE "sm"

(***************************************************************************)
(* FormValidator                                                           *)
(***************************************************************************)
\* the form as a record, so that the calls of one listener compose
Form == [ value |-> fieldValue, error |-> fieldError, message |-> formError ]

RECURSIVE TrimStart(_)
\* the value without its leading white space
TrimStart(v) ==
    IF v # << >> /\ Head(v) \in WhiteSpace THEN TrimStart(Tail(v)) ELSE v

RECURSIVE TrimEnd(_)
\* the value without its trailing white space
TrimEnd(v) ==
    IF v # << >> /\ v[Len(v)] \in WhiteSpace
    THEN TrimEnd(SubSeq(v, 1, Len(v) - 1))
    ELSE v

\* String.prototype.trim
trim(v) == TrimEnd(TrimStart(v))

\* field.value: what the user typed, which the browser hands out without its
\* surrounding white space when the field's type is email
ValueOf(fm, f) ==
    IF fieldAttrs[f].type = "email" THEN TrimEnd(TrimStart(fm.value[f]))
    ELSE fm.value[f]

\* [^\s@]+ matches v[from..to]
NoSpaceNoAt(v, from, to) ==
    /\ from <= to
    /\ \A k \in from..to : v[k] \notin WhiteSpace \cup {"@"}

\* /^[^\s@]+@[^\s@]+\.[^\s@]+$/.test(v)
emailRegexTest(v) ==
    \E i, j \in 1..Len(v) :
        /\ NoSpaceNoAt(v, 1, i - 1)
        /\ v[i] = "@"
        /\ NoSpaceNoAt(v, i + 1, j - 1)
        /\ v[j] = "."
        /\ NoSpaceNoAt(v, j + 1, Len(v))

\* /^[\d\s\-\+\(\)]+$/.test(v)
phoneRegexTest(v) == Len(v) >= 1 /\ \A k \in 1..Len(v) : v[k] \in PhoneChars

\* FormValidator.clearError
clearError(fm, f) ==
    [fm EXCEPT !.error[f] = FALSE, !.message[Parent(f)] = << >>]

\* FormValidator.showError
showError(fm, f, message) ==
    [fm EXCEPT !.error[f] = TRUE, !.message[Parent(f)] = << message >>]

\* validateField with the phone rule tried before the email and password rules
validateFieldPhoneFirst(fm, f) ==
    LET value == trim(ValueOf(fm, f))
        type == fieldAttrs[f].type
        required == fieldAttrs[f].required
        cleared == clearError(fm, f)
        fail(message) == [form |-> showError(cleared, f, message), valid |-> FALSE]
    IN  IF required /\ value = << >>
        THEN fail("This field is required")
        ELSE IF fieldAttrs[f].name = "phone" /\ value # << >> /\ ~phoneRegexTest(value)
        THEN fail("Please enter a valid phone number")
        ELSE IF type = "email" /\ value # << >> /\ ~emailRegexTest(value)
        THEN fail("Please enter a valid email address")
        ELSE IF type = "password" /\ value # << >> /\ Len(value) < MinPasswordLength
        THEN fail("Password must be at least 6 characters")
        ELSE [form |-> cleared, valid |-> TRUE]

\* FormValidator.validateField: the form after the call and what it returns
validateField(fm, f) ==
    LET value == trim(ValueOf(fm, f))
        type == fieldAttrs[f].type
        required == fieldAttrs[f].required
        cleared == clearError(fm, f)
        fail(message) == [form |-> showError(cleared, f, message), valid |-> FALSE]
    IN  IF required /\ value = << >>
        THEN fail("This field is required")
        ELSE IF type = "email" /\ value # << >> /\ ~emailRegexTest(value)
        THEN fail("Please enter a valid email address")
        ELSE IF type = "password" /\ value # << >> /\ Len(value) < MinPasswordLength
        THEN fail("Password must be at least 6 characters")
        ELSE IF fieldAttrs[f].name = "phone" /\ value # << >> /\ ~phoneRegexTest(value)
        THEN fail("Please enter a valid phone number")
        ELSE [form |-> cleared, valid |-> TRUE]

\* what handleSubmit has found before it validates any field
NoneValidated(fm) ==
    [form |-> fm, validated |-> {}, passed |-> {}, isValid |-> TRUE]

RECURSIVE validateEachUntilInvalid(_, _)
\* the loop of handleSubmit leaving at the first field that is not valid
validateEachUntilInvalid(acc, inputs) ==
    IF inputs = << >> \/ ~acc.isValid
    THEN acc
    ELSE LET r == validateField(acc.form, Head(inputs))
         IN  validateEachUntilInvalid(
                 [ form      |-> r.form,
                   validated |-> acc.validated \cup {Head(inputs)},
                   passed    |-> IF r.valid THEN acc.passed \cup {Head(inputs)}
                                 ELSE acc.passed,
                   isValid   |-> acc.isValid /\ r.valid ],
                 Tail(inputs))

RECURSIVE validateEach(_, _)
\* inputs.forEach(input => { if (!this.validateField(input)) isValid = false }):
\* the form after the loop, the fields validateField was called on, the fields
\* it returned true for, and isValid
validateEach(acc, inputs) ==
    IF inputs = << >>
    THEN acc
    ELSE LET r == validateField(acc.form, Head(inputs))
         IN  validateEach(
                 [ form      |-> r.form,
                   validated |-> acc.validated \cup {Head(inputs)},
                   passed    |-> IF r.valid THEN acc.passed \cup {Head(inputs)}
                                 ELSE acc.passed,
                   isValid   |-> acc.isValid /\ r.valid ],
                 Tail(inputs))

\* this.form.reset(): every field back to the value of its markup, empty
reset(fm) == [fm EXCEPT !.value = [f \in Fields |-> << >>]]

\* the slots no notification is in
FreeSlots(shown) == {n \in Slots : shown[n] = "none"}

\* FormValidator.showSuccess: one more notification on the page
showSuccess(shown) ==
    LET n == CHOOSE n \in FreeSlots(shown) : \A m \in FreeSlots(shown) : n <= m
    IN  [shown EXCEPT ![n] = "shown"]

\* the first timer's callback removing the notification at once
fadeOutRemoves(stage) == "none"

\* the callback of the first timer of showSuccess: the notification fades
fadeOut(stage) == "fading"

\* the callback of the second timer of showSuccess: successDiv.remove()
remove(stage) == "none"

(***************************************************************************)
(* The page load: DOMContentLoaded constructs every coordinator.  Only     *)
(* localStorage is older than the page.                                    *)
(***************************************************************************)
Loaded(entry) ==
    [ localStorageTheme |-> entry,
      theme             |-> StoredOrLight(entry),
      dataTheme         |-> StoredOrLight(entry),
      themeIcon         |-> updateThemeIcon("none", StoredOrLight(entry)),
      hamburgerActive   |-> FALSE,
      navMenuActive     |-> FALSE,
      dropdownActive    |-> [d \in Dropdowns |-> FALSE],
      bodyOverflow      |-> "",
      modalActive       |-> [m \in Modals |-> FALSE],
      sidebarActive     |-> FALSE,
      filterPanelActive |-> FALSE,
      scrollY           |-> 0,
      navbarShadow      |-> IF present["navbar"] THEN handleScroll(0) ELSE "none" ]

\* the event record of a page load
LoadEvent ==
    [ type |-> "load", target |-> "document", defaultPrevented |-> FALSE,
      outsideClose |-> FALSE, menuBefore |-> FALSE, modalsBefore |-> {},
      returned |-> "none", validated |-> {}, passed |-> {},
      submitted |-> FALSE, threw |-> FALSE ]

\* a form nobody has touched
FormLoaded ==
    /\ fieldValue = [f \in Fields |-> << >>]
    /\ fieldError = [f \in Fields |-> FALSE]
    /\ formError = [g \in Groups |-> << >>]
    /\ notifications = [n \in Slots |-> "none"]

\* no nav link carries class active in the markup
NoneActive == [link \in NavLinks |-> FALSE]

\* the page at path, shipped with the nav links of markup active, right after
\* DOMContentLoaded in a window w wide and h high
PageLoadedAt(w, h, entry, path, markup) ==
    LET l == Loaded(entry)
    IN  /\ pathname = path
        /\ markupActive = markup
        /\ linkActive = highlightActivePage(markup, path)
        /\ innerWidth = w
        /\ innerHeight = h
        /\ localStorageTheme = l.localStorageTheme
        /\ theme = l.theme
        /\ dataTheme = l.dataTheme
        /\ themeIcon = l.themeIcon
        /\ toggleCalls = 0
        /\ themeAtLoad = l.theme
        /\ storedAtLoad = entry
        /\ hamburgerActive = l.hamburgerActive
        /\ navMenuActive = l.navMenuActive
        /\ dropdownActive = l.dropdownActive
        /\ bodyOverflow = l.bodyOverflow
        /\ modalActive = l.modalActive
        /\ sidebarActive = l.sidebarActive
        /\ filterPanelActive = l.filterPanelActive
        /\ scrollY = l.scrollY
        /\ navbarShadow = l.navbarShadow
        /\ revealActive = reveal([e \in RevealElements |-> FALSE], 0, h)
        /\ lastEvent = LoadEvent

\* the home page, no link active in its markup
PageLoaded(w, h, entry) == PageLoadedAt(w, h, entry, HomePath, NoneActive)

Init ==
    /\ present = AllPresent
    /\ \E w \in Widths, h \in Heights, entry \in StoreContents :
          PageLoaded(w, h, entry)
    /\ fieldAttrs = [f \in Fields |-> DefaultField(f)]
    /\ fieldParent = OwnGroups
    /\ FormLoaded

(***************************************************************************)
(* The events.                                                             *)
(***************************************************************************)
\* a click on element t
Click(t) ==
    /\ Exists(t)
    /\ t \in ThemeToggles => toggleCalls < MaxToggles
    /\ Commit(DispatchClick(Page, t), "click", t)
    /\ UNCHANGED << themeAtLoad, storedAtLoad, highlightVars, innerWidth,
                    scrollVars, formVars, present >>

\* a key pressed anywhere in the document
Keydown(key) ==
    /\ Commit(keydown(Page, key), "keydown", key)
    /\ UNCHANGED << themeAtLoad, storedAtLoad, highlightVars, innerWidth,
                    scrollVars, formVars, present >>

\* a call of ModalManager.open by the page
OpenModal(id) ==
    /\ Commit(open(Page, id), "open", id)
    /\ UNCHANGED << themeAtLoad, storedAtLoad, highlightVars, innerWidth,
                    scrollVars, formVars, present >>

\* the window is resized: the script registers no resize listener
Resize(w, h) ==
    /\ << w, h >> # << innerWidth, innerHeight >>
    /\ innerWidth' = w
    /\ innerHeight' = h
    /\ lastEvent' = Event("resize", "window", FALSE, FALSE)
    /\ UNCHANGED << overlayVars, scrollY, navbarShadow, revealActive, formVars >>

\* the page is scrolled to y: handleScroll, then reveal
Scroll(y) ==
    /\ y # scrollY
    /\ scrollY' = y
    /\ navbarShadow' = IF present["navbar"] THEN handleScroll(y) ELSE navbarShadow
    /\ revealActive' = reveal(revealActive, y, innerHeight)
    /\ lastEvent' = Event("scroll", "window", FALSE, FALSE)
    /\ UNCHANGED << overlayVars, innerWidth, innerHeight, formVars >>

\* leaving the page and loading the page at path, shipped with the nav links
\* of markup active
Load(path, markup) ==
    LET l == Loaded(localStorageTheme)
    IN  /\ pathname' = path
        /\ markupActive' = markup
        /\ linkActive' = highlightActivePage(markup, path)
        /\ localStorageTheme' = l.localStorageTheme
        /\ theme' = l.theme
        /\ dataTheme' = l.dataTheme
        /\ themeIcon' = l.themeIcon
        /\ toggleCalls' = 0
        /\ themeAtLoad' = l.theme
        /\ storedAtLoad' = localStorageTheme
        /\ hamburgerActive' = l.hamburgerActive
        /\ navMenuActive' = l.navMenuActive
        /\ dropdownActive' = l.dropdownActive
        /\ bodyOverflow' = l.bodyOverflow
        /\ modalActive' = l.modalActive
        /\ sidebarActive' = l.sidebarActive
        /\ filterPanelActive' = l.filterPanelActive
        /\ scrollY' = l.scrollY
        /\ navbarShadow' = l.navbarShadow
        /\ revealActive' = reveal([e \in RevealElements |-> FALSE], 0, innerHeight)
        /\ lastEvent' = LoadEvent
        /\ UNCHANGED << innerWidth, innerHeight, formVars, present >>

\* leaving the page and loading it again
Reload == Load(pathname, markupActive)

\* highlightActivePage called once more on the page as it is
Highlight ==
    /\ linkActive' = highlightActivePage(linkActive, pathname)
    /\ lastEvent' = Event("highlight", "document", FALSE, FALSE)
    /\ UNCHANGED << localStorageTheme, theme, dataTheme, themeIcon, toggleCalls,
                    themeAtLoad, storedAtLoad, hamburgerActive, navMenuActive,
                    dropdownActive, bodyOverflow, modalActive, sidebarActive,
                    filterPanelActive, pathname, markupActive, innerWidth,
                    scrollVars, formVars, present >>

\* the form's state after a listener has run
CommitForm(fm) ==
    /\ fieldValue' = fm.value
    /\ fieldError' = fm.error
    /\ formError' = fm.message

\* a character typed at the end of field f: the input listener runs clearError
TypeChar(f, c) ==
    /\ present["form"]
    /\ Len(fieldValue[f]) < MaxLen
    /\ CommitForm(clearError([Form EXCEPT !.value[f] = Append(@, c)], f))
    /\ lastEvent' = Event("input", f, FALSE, FALSE)
    /\ UNCHANGED << overlayVars, innerWidth, scrollVars, markupVars >>

\* the last character of field f deleted: the input listener runs clearError
Backspace(f) ==
    /\ present["form"]
    /\ fieldValue[f] # << >>
    /\ CommitForm(clearError(
            [Form EXCEPT !.value[f] = SubSeq(@, 1, Len(@) - 1)], f))
    /\ lastEvent' = Event("input", f, FALSE, FALSE)
    /\ UNCHANGED << overlayVars, innerWidth, scrollVars, markupVars >>

\* field f loses the focus: the blur listener runs validateField
Blur(f) ==
    LET r == validateField(Form, f)
    IN  /\ present["form"]
        /\ CommitForm(r.form)
        /\ lastEvent' = [Event("blur", f, FALSE, FALSE) EXCEPT
                             !.returned = IF r.valid THEN "true" ELSE "false"]
        /\ UNCHANGED << overlayVars, innerWidth, scrollVars, markupVars >>

\* field f set to v in one input event: the input listener runs clearError
Paste(f, v) ==
    /\ present["form"]
    /\ v # fieldValue[f]
    /\ CommitForm(clearError([Form EXCEPT !.value[f] = v], f))
    /\ lastEvent' = Event("input", f, FALSE, FALSE)
    /\ UNCHANGED << overlayVars, innerWidth, scrollVars, markupVars >>

\* the form is submitted: handleSubmit, and submitForm if every field is valid
Submit ==
    LET r == validateEach(NoneValidated(Form), FieldOrder)
    IN  /\ present["form"]
        /\ r.isValid => FreeSlots(notifications) # {}
        /\ CommitForm(IF r.isValid THEN reset(r.form) ELSE r.form)
        /\ notifications' = IF r.isValid THEN showSuccess(notifications)
                                         ELSE notifications
        /\ lastEvent' = [Event("submit", "form", TRUE, FALSE) EXCEPT
                             !.validated = r.validated, !.passed = r.passed,
                             !.submitted = r.isValid]
        /\ UNCHANGED << overlayVars, innerWidth, scrollVars, fieldAttrs,
                        fieldParent >>

\* the first timer of the notification in slot n fires
FadeOutTimer(n) ==
    /\ notifications[n] = "shown"
    /\ notifications' = [notifications EXCEPT ![n] = fadeOut(@)]
    /\ lastEvent' = Event("timeout", n, FALSE, FALSE)
    /\ UNCHANGED << overlayVars, innerWidth, scrollVars, fieldAttrs,
                    fieldValue, fieldError, formError, fieldParent >>

\* the second timer of the notification in slot n fires
RemoveTimer(n) ==
    /\ notifications[n] = "fading"
    /\ notifications' = [notifications EXCEPT ![n] = remove(@)]
    /\ lastEvent' = Event("timeout", n, FALSE, FALSE)
    /\ UNCHANGED << overlayVars, innerWidth, scrollVars, fieldAttrs,
                    fieldValue, fieldError, formError, fieldParent >>

(***************************************************************************)
(* Spec: the overlays (theme, menu, dropdowns, modals, scroll lock) under  *)
(* clicks, key presses, open() calls, width changes and page loads.        *)
(***************************************************************************)
Next ==
    \/ \E t \in Targets : Click(t)
    \/ \E key \in {"Escape", "Enter"} : Keydown(key)
    \/ \E id \in ModalIds : OpenModal(id)
    \/ \E w \in Widths : Resize(w, innerHeight)
    \/ Reload

Spec == Init /\ [][Next]_vars

(***************************************************************************)
(* SpecReveal: one page under scrolling and height changes.                *)
(***************************************************************************)
NextReveal ==
    \/ \E y \in ScrollPositions : Scroll(y)
    \/ \E h \in Heights : Resize(innerWidth, h)

SpecReveal == Init /\ [][NextReveal]_vars

(***************************************************************************)
(* SpecValidate: one field of every type, name and required attribute,     *)
(* typed into and validated on blur.                                       *)
(***************************************************************************)
InitValidate ==
    /\ present = AllPresent
    /\ PageLoaded(1200, 800, << >>)
    /\ \E type \in Types, name \in Names, required \in BOOLEAN :
          fieldAttrs = [f \in Fields |->
              IF f = "field1"
              THEN [type |-> type, name |-> name, required |-> required]
              ELSE DefaultField(f)]
    /\ fieldParent = OwnGroups
    /\ FormLoaded

NextValidate ==
    \/ \E c \in Chars : TypeChar("field1", c)
    \/ Backspace("field1")
    \/ Blur("field1")

SpecValidate == InitValidate /\ [][NextValidate]_vars

(***************************************************************************)
(* SpecDashboard: the dashboard layout under clicks on its controls, inside *)
(* its panels and elsewhere, at every width.                               *)
(***************************************************************************)
NextDashboard ==
    \/ \E t \in DashboardTargets \cup {"pageBody"} : Click(t)
    \/ \E w \in Widths : Resize(w, innerHeight)

SpecDashboard == Init /\ [][NextDashboard]_vars

(***************************************************************************)
(* SpecHighlight: the page loaded at every sample path, with every set of  *)
(* nav links active in its markup, and highlighted again.                  *)
(***************************************************************************)
InitHighlight ==
    /\ present = AllPresent
    /\ \E path \in Pathnames, markup \in [NavLinks -> BOOLEAN] :
          PageLoadedAt(1200, 800, << >>, path, markup)
    /\ fieldAttrs = [f \in Fields |-> DefaultField(f)]
    /\ fieldParent = OwnGroups
    /\ FormLoaded

NextHighlight ==
    \/ \E path \in Pathnames, markup \in [NavLinks -> BOOLEAN] :
          Load(path, markup)
    \/ Highlight

SpecHighlight == InitHighlight /\ [][NextHighlight]_vars

(***************************************************************************)
(* SpecPresence: a page with any subset of the host elements, in a narrow  *)
(* window, under the events its listeners are registered for.              *)
(***************************************************************************)
InitPresence ==
    /\ present \in [Elements -> BOOLEAN]
    /\ PageLoaded(SidebarBreakpoint, 800, << >>)
    /\ fieldAttrs = [f \in Fields |-> DefaultField(f)]
    /\ fieldParent = OwnGroups
    /\ FormLoaded

\* one element for every listener whose registration or body depends on a
\* host element, and the page outside all of them
PresenceTargets ==
    { "hamburger", "classesLink", "themeToggleDesktop", "bookingClose",
      "dashboardToggle", "filterToggle", "pageBody" }

NextPresence ==
    \/ \E t \in PresenceTargets : Click(t)
    \/ Keydown("Escape")
    \/ Scroll(2 * ShadowThreshold)
    \/ Submit

SpecPresence == InitPresence /\ [][NextPresence]_vars

(***************************************************************************)
(* SpecForm: the form of the page in every arrangement of its fields,      *)
(* filled in, validated on blur and submitted.                             *)
(***************************************************************************)
InitForm ==
    /\ present = AllPresent
    /\ PageLoaded(1200, 800, << >>)
    /\ fieldAttrs = [f \in Fields |-> DefaultField(f)]
    /\ fieldParent \in Arrangements
    /\ FormLoaded

NextForm ==
    \/ \E f \in Fields, v \in SampleValues : Paste(f, v)
    \/ \E f \in Fields : Blur(f)
    \/ Submit
    \/ \E n \in Slots : FadeOutTimer(n)
    \/ \E n \in Slots : RemoveTimer(n)

SpecForm == InitForm /\ [][NextForm]_vars

(***************************************************************************)
(* SpecNotify: the form filled in and submitted again and again while the  *)
(* timers of the notifications run.  A timer that is pending fires: the    *)
(* browser's event loop runs every timer callback once its delay is over.  *)
(***************************************************************************)
InitNotify ==
    /\ present = AllPresent
    /\ PageLoaded(1200, 800, << >>)
    /\ fieldAttrs = [f \in Fields |-> DefaultField(f)]
    /\ fieldParent = OwnGroups
    /\ FormLoaded

NextNotify ==
    \/ \E f \in Fields, v \in SampleValues : Paste(f, v)
    \/ Submit
    \/ \E n \in Slots : FadeOutTimer(n)
    \/ \E n \in Slots : RemoveTimer(n)

SpecNotify ==
    /\ InitNotify
    /\ [][NextNotify]_vars
    /\ \A n \in Slots : WF_vars(FadeOutTimer(n)) /\ WF_vars(RemoveTimer(n))

(***************************************************************************)
(* The claims.  A state in which lastEvent is a click on t is the state    *)
(* right after every listener of that click has run.                       *)
(***************************************************************************)
ClickedOn(t) == lastEvent.type = "click" /\ lastEvent.target = t

\* the step is the dispatch of a click on t
ClickStep(t) == lastEvent'.type = "click" /\ lastEvent'.target = t

AnyModalOpen == \E m \in Modals : modalActive[m]

AllDropdownsClosed == \A d \in Dropdowns : ~dropdownActive[d]

\* C1: in every reachable state, page scroll is locked (body overflow is
\* 'hidden') whenever the navigation menu is open or a modal is open.
C1_ScrollLockedWhileOverlayOpen ==
    (navMenuActive \/ AnyModalOpen) => bodyOverflow = "hidden"

\* C2: in every reachable state, if the menu is closed then every dropdown's
\* open flag is false.
C2_ClosedMenuHasNoOpenDropdown == ~navMenuActive => AllDropdownsClosed

\* C3 as stated: after construction and two toggle() calls the current theme
\* equals its value right after construction and the stored entry equals what
\* it was before the two toggles, for every initial content of the entry.
C3_DoubleToggleRestoresThemeAndEntry ==
    toggleCalls = 2 =>
        /\ theme = themeAtLoad
        /\ localStorageTheme = storedAtLoad

\* C3 amended: after construction and two toggle() calls the current theme
\* equals its value right after construction and the stored entry holds that
\* theme: the entry is what it was before when there was one, and an absent
\* entry has become 'light'.
C3_DoubleToggleRestoresThemeStoresIt ==
    toggleCalls = 2 =>
        /\ theme = themeAtLoad
        /\ localStorageTheme = << themeAtLoad >>
        /\ storedAtLoad # << >> => localStorageTheme = storedAtLoad
        /\ storedAtLoad = << >> => localStorageTheme = << "light" >>

C3_Witness ==
    /\ toggleCalls = 2
    /\ storedAtLoad = << >>
    /\ theme = "light"
    /\ localStorageTheme = << "light" >>

\* C4: after construction and after any sequence of toggle() calls the root's
\* data-theme attribute equals the current theme, the current theme is light
\* or dark, and once toggle() has run the stored entry equals the current
\* theme.
C4_ThemeMirroredAndPersisted ==
    /\ dataTheme = theme
    /\ theme \in {"light", "dark"}
    /\ toggleCalls > 0 => localStorageTheme = << theme >>

C4_Witness ==
    /\ ClickedOn("themeToggleDesktop")
    /\ toggleCalls = 1
    /\ storedAtLoad = << >>
    /\ theme = "dark"
    /\ dataTheme = "dark"
    /\ localStorageTheme = << "dark" >>

\* C5: a click on a navigation link that is not a dropdown-parent link leaves
\* the menu closed, all dropdowns closed and the scroll lock released,
\* whatever the state before; a click on a dropdown-parent link never closes
\* the menu.
C5_PlainLinkClosesParentLinkDoesNot ==
    \A link \in NavLinks :
        ClickedOn(link) =>
            IF ParentIsDropdown(link)
            THEN lastEvent.menuBefore => navMenuActive
            ELSE /\ ~navMenuActive
                 /\ ~hamburgerActive
                 /\ AllDropdownsClosed
                 /\ bodyOverflow = ""

\* a plain link clicked with the menu, a dropdown and a modal open
C5_Witness ==
    /\ ClickedOn("boulderingLink")
    /\ lastEvent.menuBefore
    /\ lastEvent.modalsBefore # {}
    /\ ~navMenuActive
    /\ bodyOverflow = ""

\* the default-navigation and dropdown part of C6, with the condition under
\* which the click's default is prevented as a parameter
DropdownLinkFrame(d, prevented) ==
    LET narrow == innerWidth <= 1024
    IN  /\ lastEvent'.defaultPrevented = prevented
        /\ dropdownActive'[d] = IF narrow THEN ~dropdownActive[d]
                                          ELSE dropdownActive[d]
        /\ \A o \in Dropdowns \ {d} : dropdownActive'[o] = dropdownActive[o]
        /\ navMenuActive' = navMenuActive

\* C6 as stated: a click on a dropdown-parent link prevents default
\* navigation and flips that dropdown's open flag if and only if the viewport
\* width is at most 1024; above 1024 the default is not prevented and the flag
\* is unchanged; every other dropdown's flag and the menu's flag are unchanged.
C6_DropdownLinkPreventsIffNarrow ==
    [][ \A d \in Dropdowns :
            ClickStep(DropdownLink(d)) =>
                DropdownLinkFrame(d, innerWidth <= 1024) ]_vars

\* C6 amended: the dropdown's flag flips if and only if the width is at most
\* 1024; default navigation is prevented if the width is at most 1024 or the
\* link's href is an in-page anchor ('#' and at least one more character) and
\* otherwise not; every other dropdown's flag and the menu's flag are
\* unchanged.
C6_DropdownLinkPreventsIffNarrowOrAnchor ==
    [][ \A d \in Dropdowns :
            ClickStep(DropdownLink(d)) =>
                DropdownLinkFrame(d,
                    \/ innerWidth <= 1024
                    \/ Href(DropdownLink(d)).hash /\ Href(DropdownLink(d)).rest # "") ]_vars

\* a dropdown opened by a click on its link at a narrow width, the menu open
C6_Witness ==
    /\ ClickedOn("classesLink")
    /\ innerWidth = 1024
    /\ lastEvent.defaultPrevented
    /\ dropdownActive["classesDropdown"]
    /\ ~dropdownActive["moreDropdown"]
    /\ navMenuActive

\* C7: a click whose target lies outside both the navigation menu and the
\* hamburger leaves the menu and its dropdowns closed; a click whose target
\* lies inside the menu or the hamburger does not trigger the outside-click
\* close.
C7_OutsideClickClosesInsideDoesNot ==
    \A t \in Targets :
        ClickedOn(t) =>
            IF t \in NavLinks \cup {"themeToggleMobile", "hamburger"}
            THEN ~lastEvent.outsideClose
            ELSE /\ lastEvent.outsideClose
                 /\ ~navMenuActive
                 /\ ~hamburgerActive
                 /\ AllDropdownsClosed

\* the page clicked with the menu open
C7_Witness ==
    /\ ClickedOn("pageBody")
    /\ lastEvent.menuBefore
    /\ lastEvent.outsideClose
    /\ ~navMenuActive

\* C8: after an Escape keypress no modal is open, however many were open
\* before it.
C8_EscapeClosesEveryModal ==
    (lastEvent.type = "keydown" /\ lastEvent.target = "Escape") => ~AnyModalOpen

\* Escape pressed with both modals open
C8_Witness ==
    /\ lastEvent.type = "keydown"
    /\ lastEvent.target = "Escape"
    /\ lastEvent.modalsBefore = Modals
    /\ ~AnyModalOpen

\* C9: once a tracked element is marked revealed it stays revealed after any
\* later scroll event, whatever its position relative to the viewport becomes.
C9_RevealedStaysRevealed ==
    [][ \A e \in RevealElements : revealActive[e] => revealActive'[e] ]_vars

\* an element that is revealed and has left the reveal zone again
C9_Witness ==
    /\ lastEvent.type = "scroll"
    /\ revealActive["pricing"]
    /\ ~(BoundingTop("pricing", scrollY) < innerHeight - elementVisible)

\* the four rules of the specification, on a field with attributes a and the
\* value v
RuleFails(k, a, v) ==
    CASE k = 1 -> a.required /\ v = << >>
      [] k = 2 -> /\ a.type = "email"
                  /\ v # << >>
                  /\ ~( /\ \A n \in 1..Len(v) : v[n] # " "
                        /\ Cardinality({n \in 1..Len(v) : v[n] = "@"}) = 1
                        /\ \E n \in 2..Len(v) :
                              /\ v[n] = "@"
                              /\ \E d \in (n + 2)..(Len(v) - 1) : v[d] = "." )
      [] k = 3 -> a.type = "password" /\ v # << >> /\ Len(v) < 6
      [] k = 4 -> /\ a.name = "phone"
                  /\ v # << >>
                  /\ \E n \in 1..Len(v) : v[n] \notin {"1", " ", "-", "+", "(", ")"}

RuleMessage(k) ==
    CASE k = 1 -> "This field is required"
      [] k = 2 -> "Please enter a valid email address"
      [] k = 3 -> "Password must be at least 6 characters"
      [] k = 4 -> "Please enter a valid phone number"

\* the first rule that fails, 0 if none does
FirstFailingRule(a, v) ==
    IF \E k \in 1..4 : RuleFails(k, a, v)
    THEN CHOOSE k \in 1..4 :
            RuleFails(k, a, v) /\ \A j \in 1..(k - 1) : ~RuleFails(j, a, v)
    ELSE 0

\* v between its first and its last character that is not white space
Stripped(v) ==
    LET solid == {n \in 1..Len(v) : v[n] # " "}
    IN  IF solid = {} THEN << >>
        ELSE SubSeq(v, CHOOSE n \in solid : \A m \in solid : n <= m,
                       CHOOSE n \in solid : \A m \in solid : m <= n)

\* the outcome of validateField(f) is that of the first rule v fails
OutcomeIsFirstFailingRule(f, v) ==
    LET k == FirstFailingRule(fieldAttrs[f], v)
    IN  IF k = 0
        THEN /\ lastEvent.returned = "true"
             /\ formError[Parent(f)] = << >>
             /\ ~fieldError[f]
        ELSE /\ lastEvent.returned = "false"
             /\ formError[Parent(f)] = << RuleMessage(k) >>
             /\ fieldError[f]

Validated(f) == lastEvent.type = "blur" /\ lastEvent.target = f

\* C10 as stated: validateField's outcome (valid, or the message shown) is
\* that of the first failing rule in the order required-and-empty, email
\* pattern, password shorter than 6, phone pattern, for every type, name,
\* required flag and value of the field.
C10_OutcomeIsFirstFailingRuleOfValue ==
    \A f \in Fields :
        Validated(f) => OutcomeIsFirstFailingRule(f, ValueOf(Form, f))

\* C10 amended: the same, the rules being applied to the field's value
\* without its leading and trailing white space (a value of white space only
\* is empty).
C10_OutcomeIsFirstFailingRuleOfTrimmedValue ==
    \A f \in Fields :
        Validated(f) => OutcomeIsFirstFailingRule(f, Stripped(ValueOf(Form, f)))

\* an email field named phone whose value fails the email rule and the phone
\* rule, typed with a trailing blank: the email message is shown
C10_Witness ==
    /\ Validated("field1")
    /\ fieldAttrs["field1"].type = "email"
    /\ fieldAttrs["field1"].name = "phone"
    /\ fieldValue["field1"] = << "1", "@", "1", " " >>
    /\ formError["group1"] = << "Please enter a valid email address" >>
    /\ lastEvent.returned = "false"

Submitted == lastEvent.type = "submit"

\* the step is the dispatch of a submit event
SubmitStep == lastEvent'.type = "submit"

\* field f passes every rule of the specification
PassesRules(f) ==
    FirstFailingRule(fieldAttrs[f], Stripped(ValueOf(Form, f))) = 0

\* the notifications on the page
OnPage(shown) == {n \in Slots : shown[n] # "none"}

\* C11: on every submit event the default submission is prevented and every
\* field of the form is validated, also the fields after the first invalid
\* one; the success path (one more notification, every field reset) runs if
\* and only if every field is valid, and otherwise the values and the
\* notifications are left as they are.
C11_SubmitValidatesAllSucceedsIffAllValid ==
    [][ SubmitStep =>
            /\ lastEvent'.defaultPrevented
            /\ lastEvent'.validated = Fields
            /\ lastEvent'.passed = {f \in Fields : PassesRules(f)}
            /\ lastEvent'.submitted <=> \A f \in Fields : PassesRules(f)
            /\ IF \A f \in Fields : PassesRules(f)
               THEN /\ fieldValue' = [f \in Fields |-> << >>]
                    /\ Cardinality(OnPage(notifications')) =
                           Cardinality(OnPage(notifications)) + 1
               ELSE /\ fieldValue' = fieldValue
                    /\ notifications' = notifications ]_vars

\* a submit blocked by the first field: the two fields after it were
\* validated all the same
C11_Witness ==
    /\ Submitted
    /\ ~lastEvent.submitted
    /\ lastEvent.defaultPrevented
    /\ lastEvent.validated = Fields
    /\ lastEvent.passed = {"field2", "field3"}
    /\ fieldError["field1"]

\* field f displays an error message: it is marked and its parent holds a
\* message element
DisplaysError(f) == fieldError[f] /\ formError[Parent(f)] # << >>

\* C12: after a blocked submit the fields displaying an error message are
\* exactly the invalid fields, each with the message of the rule it fails,
\* and there are as many message elements as invalid fields, for every
\* arrangement of the fields in the form.
C12_ErrorsShownAreExactlyInvalidFields ==
    (Submitted /\ ~lastEvent.submitted) =>
        /\ \A f \in Fields :
              /\ DisplaysError(f) <=> ~PassesRules(f)
              /\ ~PassesRules(f) =>
                    formError[Parent(f)] =
                        << RuleMessage(FirstFailingRule(fieldAttrs[f],
                                           Stripped(ValueOf(Form, f)))) >>
        /\ Cardinality({g \in Groups : formError[g] # << >>}) =
               Cardinality({f \in Fields : ~PassesRules(f)})

\* C14 as stated: after every listener of a click on the sidebar trigger has
\* run the sidebar's flag is flipped and the filter panel's flag is
\* unchanged, and after a click on the filter trigger the filter panel's flag
\* is flipped and the sidebar's flag is unchanged, at every viewport width.
C14_TriggerFlipsOwnFlagOnly ==
    [][ /\ ClickStep("dashboardToggle") =>
              /\ sidebarActive' = ~sidebarActive
              /\ filterPanelActive' = filterPanelActive
        /\ ClickStep("filterToggle") =>
              /\ filterPanelActive' = ~filterPanelActive
              /\ sidebarActive' = sidebarActive ]_vars

\* C14 amended: a click on a trigger flips the flag of its own panel at every
\* viewport width; the other panel's flag is unchanged when the width is
\* above 768, and at a width of at most 768 the other panel is closed, the
\* trigger being outside it.
C14_TriggerFlipsOwnFlagClosesOtherWhenNarrow ==
    [][ /\ ClickStep("dashboardToggle") =>
              /\ sidebarActive' = ~sidebarActive
              /\ filterPanelActive' =
                     IF innerWidth <= 768 THEN FALSE ELSE filterPanelActive
        /\ ClickStep("filterToggle") =>
              /\ filterPanelActive' = ~filterPanelActive
              /\ sidebarActive' =
                     IF innerWidth <= 768 THEN FALSE ELSE sidebarActive ]_vars

\* both panels open on a wide window after a click on the filter trigger
C14_Witness ==
    /\ ClickedOn("filterToggle")
    /\ innerWidth = 800
    /\ sidebarActive
    /\ filterPanelActive

\* the final segment of the path, index.html when the path ends with a
\* separator
FinalSegment(path) ==
    IF path = << >> \/ path[Len(path)] = "/" THEN "index.html"
    ELSE path[Len(path)]

\* the nav links whose href is the final segment of the path
Matching == {link \in NavLinks : Href(link) = [hash |-> FALSE,
                                               rest |-> FinalSegment(pathname)]}

\* C15: after highlightActivePage has run a nav link is marked active if and
\* only if its href equals the final segment of the path, an empty segment
\* counting as index.html: exactly one link is active when exactly one href
\* matches, and a link that was active before and does not match is
\* de-marked; running it again with the path unchanged changes nothing.
C15_HighlightMarksMatchingLinksIdempotent ==
    /\ [](/\ \A link \in NavLinks : linkActive[link] <=> link \in Matching
          /\ Cardinality(Matching) = 1 =>
                 Cardinality({link \in NavLinks : linkActive[link]}) = 1)
    /\ [][lastEvent'.type = "highlight" => linkActive' = linkActive]_vars

\* the page of a directory, shipped with the classes link active, after a
\* second run: only the home link is active
C15_Witness ==
    /\ lastEvent.type = "highlight"
    /\ pathname = << "/", "gym", "/" >>
    /\ markupActive["classesLink"]
    /\ ~linkActive["classesLink"]
    /\ linkActive["homeLink"]

\* C16: a click on modal M's backdrop (the modal root itself) or on M's close
\* button leaves M closed and every other modal's flag as it was, and the
\* scroll lock released, also when another modal remains open; a click on an
\* element inside M other than its close button does not close M.
C16_BackdropOrCloseButtonClosesThatModalOnly ==
    \A m \in Modals :
        /\ (ClickedOn(m) \/ ClickedOn(CloseButton(m))) =>
              /\ ~modalActive[m]
              /\ \A o \in Modals \ {m} :
                    modalActive[o] <=> o \in lastEvent.modalsBefore
              /\ bodyOverflow = ""
        /\ ClickedOn(ModalContent(m)) =>
              /\ modalActive[m] <=> m \in lastEvent.modalsBefore
              /\ \A o \in Modals \ {m} :
                    modalActive[o] <=> o \in lastEvent.modalsBefore

\* the backdrop of one of two open modals clicked: the other one stays open
\* and the scroll lock is released
C16_Witness ==
    /\ ClickedOn("bookingModal")
    /\ lastEvent.modalsBefore = Modals
    /\ ~modalActive["bookingModal"]
    /\ modalActive["loginModal"]
    /\ bodyOverflow = ""

\* C19: no stale scroll lock: in every reachable state, under menu,
\* dropdown, outside-click, modal open and close and Escape events, if the
\* menu is closed and no modal is open then the body overflow is not
\* 'hidden'.
C19_NoStaleScrollLock ==
    (~navMenuActive /\ ~AnyModalOpen) => bodyOverflow # "hidden"

\* the last open modal closed by its close button, the menu closed
C19_Witness ==
    /\ ClickedOn("loginClose")
    /\ lastEvent.modalsBefore = {"loginModal"}
    /\ ~lastEvent.menuBefore
    /\ ~navMenuActive
    /\ ~AnyModalOpen
    /\ bodyOverflow = ""

\* C20: a click on the hamburger, after the toggle listener and the
\* document's listener have both run, has flipped the menu's state exactly
\* once: a closed menu is open, with the hamburger's and the menu's flag set
\* and the scroll locked, and an open menu is closed; the hamburger's flag
\* equals the menu's flag in every reachable state.
C20_HamburgerClickFlipsMenuOnce ==
    /\ hamburgerActive <=> navMenuActive
    /\ ClickedOn("hamburger") =>
          /\ ~lastEvent.outsideClose
          /\ IF lastEvent.menuBefore
             THEN ~navMenuActive /\ ~hamburgerActive
             ELSE navMenuActive /\ hamburgerActive /\ bodyOverflow = "hidden"

\* the hamburger clicked on a closed menu with a modal open
C20_Witness ==
    /\ ClickedOn("hamburger")
    /\ ~lastEvent.menuBefore
    /\ lastEvent.modalsBefore # {}
    /\ navMenuActive
    /\ hamburgerActive
    /\ bodyOverflow = "hidden"

\* element e is within the reveal threshold of the viewport
InRevealZone(e) == OffsetTop(e) - scrollY < innerHeight - 150

\* C17: after initialisation and after every scroll or resize event every
\* tracked element whose top is less than the viewport height minus 150 is
\* revealed, and an element is never revealed unless that condition held for
\* it at initialisation or at such an event.
C17_InZoneRevealedAfterScrollOrResize ==
    /\ \A e \in RevealElements : revealActive[e] => InRevealZone(e)
    /\ [](lastEvent.type \in {"load", "scroll", "resize"} =>
              \A e \in RevealElements : InRevealZone(e) => revealActive[e])
    /\ [][ \A e \in RevealElements :
               (~revealActive[e] /\ revealActive'[e]) =>
                   /\ lastEvent'.type \in {"scroll", "resize"}
                   /\ OffsetTop(e) - scrollY' < innerHeight' - 150 ]_vars

\* the step is a successful submit: handleSubmit has called submitForm
SuccessStep == SubmitStep /\ lastEvent'.submitted

\* C18: every successful submit resets all fields to empty and creates one
\* success notification; a notification is removed only after its fade-out
\* step, which only a notification on show takes, and a timer of one
\* notification changes no other notification; every notification created
\* is eventually removed when the browser fires every pending timer, also
\* when several successful submits happen before the first notification is
\* dismissed.
C18_NotificationFadesThenIsRemoved ==
    /\ [][ SuccessStep =>
               /\ fieldValue' = [f \in Fields |-> << >>]
               /\ \E n \in Slots :
                     /\ notifications[n] = "none"
                     /\ notifications' = [notifications EXCEPT ![n] = "shown"] ]_vars
    /\ [][ \A n \in Slots :
               /\ (notifications[n] # "none" /\ notifications'[n] = "none") =>
                      /\ notifications[n] = "fading"
                      /\ \A m \in Slots \ {n} : notifications'[m] = notifications[m]
               /\ (notifications[n] # "fading" /\ notifications'[n] = "fading") =>
                      /\ notifications[n] = "shown"
                      /\ \A m \in Slots \ {n} : notifications'[m] = notifications[m]
               /\ (notifications[n] # "shown" /\ notifications'[n] = "shown") =>
                      SuccessStep ]_vars
    /\ \A n \in Slots : (notifications[n] = "shown") ~> (notifications[n] = "none")

\* a second successful submit while the notification of the first is fading
C18_Witness ==
    /\ Submitted
    /\ lastEvent.submitted
    /\ notifications[1] = "fading"
    /\ notifications[2] = "shown"
    /\ fieldValue = [f \in Fields |-> << >>]

\* C13: for every combination of present and absent host elements the
\* construction of the coordinators and every event delivered to a
\* registered listener completes without raising an error.
C13_NoListenerRaisesAnError == ~lastEvent.threw

=============================================================================
